---- MODULE Spec2Model ----
(***************************************************************************)
(* B.L.I.N.K habit tracker (src/BLINK.py): the two SQLite tables, the      *)
(* Streamlit form handlers that write them, and the pandas aggregations    *)
(* (weekly_counts, calc_streaks) computed on every script run.             *)
(*                                                                         *)
(* Text is a tuple of one-character strings.  A calendar date is an        *)
(* integer (its ordinal); a point in time is a date plus a time of day.    *)
(* A pandas Timestamp additionally carries its timezone: "naive" or "UTC". *)
(***************************************************************************)
EXTENDS Integers, Sequences, FiniteSets, TLC

VARIABLES habits, logs, sqlite_sequence, now, event, view, df_logs, result

vars == <<habits, logs, sqlite_sequence, now, event, view, df_logs, result>>

(* ------------------------------ bounds -------------------------------- *)
MaxHabits == 2
MaxLogs   == 2
MaxDate   == 3
MaxEntries == 3
MaxWindow == 1

(* ------------------------------ inputs -------------------------------- *)
\* an optional argument: None, or a one-element tuple holding the value
None == <<>>
Some(x) == <<x>>

RawNames   == {<<>>, <<" ">>, <<" ", "a", " ">>, <<"b">>}
Categories == {<<"c", " ">>}
Targets    == {1}
Colors     == {"#7c3aed"}
Notes      == {<<"n">>}
\* times of day of the timestamps given to the aggregations
Tods       == {0, 1}

(* --------------------------- python helpers --------------------------- *)
isspace(c) == c \in {" ", "\t", "\n"}

RECURSIVE lstrip(_)
lstrip(s) == IF s # <<>> /\ isspace(Head(s)) THEN lstrip(Tail(s)) ELSE s

RECURSIVE rstrip(_)
rstrip(s) ==
    IF s # <<>> /\ isspace(s[Len(s)]) THEN rstrip(SubSeq(s, 1, Len(s) - 1)) ELSE s

\* strip left out: the text is taken as typed
strip_none(s) == s

\* str.strip()
strip(s) == rstrip(lstrip(s))

\* truth value of an optional integer used as a condition: None and 0 are false
Truthy(x) == x # None /\ x[1] # 0

SetMin(S) == CHOOSE x \in S : \A y \in S : x <= y
SetMax(S) == CHOOSE x \in S : \A y \in S : x >= y
Max2(a, b) == IF a >= b THEN a ELSE b

\* sorted(set(...)) of dates
RECURSIVE sorted(_)
sorted(S) == IF S = {} THEN <<>> ELSE <<SetMin(S)>> \o sorted(S \ {SetMin(S)})

(* ------------------------------ the clock ----------------------------- *)
\* the instants the clock of the app is read at: late on day 0, early on day 1
Instants == {[day |-> 0, tod |-> 1], [day |-> 1, tod |-> 0]}

FirstInstant == [day |-> 0, tod |-> 1]

Before(t, u) == t.day < u.day \/ (t.day = u.day /\ t.tod < u.tod)

\* datetime.utcnow().isoformat(): the text "<date>T<time of day>", no offset
isoformat(t) == <<t.day, t.tod>>

\* comparison of two TEXT values (fixed-width fields, compared left to right)
TextLess(a, b) == a[1] < b[1] \/ (a[1] = b[1] /\ a[2] < b[2])

\* pd.to_datetime of a text without offset: a timezone-naive Timestamp
to_datetime(s) == [day |-> s[1], tod |-> s[2], tz |-> "naive"]

\* pd.Timestamp.utcnow(): a timezone-aware (UTC) Timestamp
Timestamp_utcnow(t) == [day |-> t.day, tod |-> t.tod, tz |-> "UTC"]

tz_localize_None(ts) == [ts EXCEPT !.tz = "naive"]
normalize(ts) == [ts EXCEPT !.tod = 0]
date(ts) == ts.day

(* ------------------------------ storage ------------------------------- *)
\* init_db: both tables exist and are empty; AUTOINCREMENT counters at 0
init_db == [habits |-> <<>>, logs |-> <<>>, seq |-> [habits |-> 0, logs |-> 0]]

\* INSERT without AUTOINCREMENT bookkeeping: every row gets id 1
add_habit_id1(tbl, seq, name, category, target, color, t) ==
    Append(tbl, [id |-> 1, name |-> name, category |-> category,
                 target |-> target, color |-> color, created_at |-> isoformat(t)])

\* INSERT INTO habits: the row appended by add_habit (id from AUTOINCREMENT)
add_habit(tbl, seq, name, category, target, color, t) ==
    Append(tbl, [id |-> seq + 1, name |-> name, category |-> category,
                 target |-> target, color |-> color, created_at |-> isoformat(t)])

\* INSERT OR REPLACE on a fixed id: the new row takes the place of the table
add_log_replace(tbl, seq, habit_id, ts, note, t) ==
    <<[id |-> 1, habit_id |-> habit_id,
       ts |-> IF ts = None THEN isoformat(t) ELSE ts[1], note |-> note]>>

\* INSERT INTO logs: the row appended by add_log; ts defaults to the clock
add_log(tbl, seq, habit_id, ts, note, t) ==
    Append(tbl, [id |-> seq + 1, habit_id |-> habit_id,
                 ts |-> IF ts = None THEN isoformat(t) ELSE ts[1], note |-> note])

IdDesc(r, q) == r.id > q.id

\* ORDER BY ts ASC
TsAsc(r, q) == TextLess(r.ts, q.ts)

TsDesc(r, q) == TextLess(q.ts, r.ts)

\* ORDER BY id DESC: row r placed into s, which is already in that order,
\* behind every row that does not come after it
InsertByIdDesc(r, s) ==
    LET k == Cardinality({i \in 1..Len(s) : ~IdDesc(r, s[i])})
    IN  SubSeq(s, 1, k) \o <<r>> \o SubSeq(s, k + 1, Len(s))

OrderByIdDesc(s) ==
    LET f[n \in 0..Len(s)] == IF n = 0 THEN <<>> ELSE InsertByIdDesc(s[n], f[n - 1])
    IN  f[Len(s)]

\* ORDER BY ts DESC, likewise
InsertByTsDesc(r, s) ==
    LET k == Cardinality({i \in 1..Len(s) : ~TsDesc(r, s[i])})
    IN  SubSeq(s, 1, k) \o <<r>> \o SubSeq(s, k + 1, Len(s))

OrderByTsDesc(s) ==
    LET f[n \in 0..Len(s)] == IF n = 0 THEN <<>> ELSE InsertByTsDesc(s[n], f[n - 1])
    IN  f[Len(s)]

\* SELECT * FROM habits ORDER BY id DESC
get_habits(tbl) == OrderByIdDesc(tbl)

\* h.name of LEFT JOIN habits h ON h.id = l.habit_id (NULL when no habit matches)
habit_name(htbl, l) ==
    IF \E i \in 1..Len(htbl) : htbl[i].id = l.habit_id
    THEN Some(htbl[CHOOSE i \in 1..Len(htbl) : htbl[i].id = l.habit_id].name)
    ELSE None

JoinRow(htbl, l) ==
    [id |-> l.id, habit_id |-> l.habit_id, ts |-> l.ts, note |-> l.note,
     habit_name |-> habit_name(htbl, l)]

\* SELECT ... FROM logs l LEFT JOIN habits h ... ORDER BY ts DESC
\* (rows with equal ts are kept in rowid order)
get_logs(htbl, ltbl) ==
    OrderByTsDesc([i \in 1..Len(ltbl) |-> JoinRow(htbl, ltbl[i])])

(* ----------------------------- analytics ------------------------------ *)
\* ts - pd.Timedelta(days=n)
minus_days(ts, n) == [ts EXCEPT !.day = ts.day - n]

\* pd.date_range(start=start, periods=periods, freq='D'); keeps start's timezone
date_range(start, periods) ==
    [i \in 1..periods |-> [start EXCEPT !.day = start.day + (i - 1)]]

\* df.set_index('ts').groupby(pd.Grouper(freq='D')).size(): one bin per day from
\* the first to the last day that has a row, labelled by that day's midnight in
\* the timezone of the 'ts' column, holding the number of rows of that day
groupby_D_size(tss) ==
    LET ds == {tss[i].day : i \in 1..Len(tss)}
        tz == tss[1].tz
    IN  [b \in {[day |-> d, tod |-> 0, tz |-> tz] : d \in SetMin(ds)..SetMax(ds)} |->
            Cardinality({i \in 1..Len(tss) : normalize(tss[i]) = b})]

\* Index._is_comparable_dtype: timezone-naive labels are only looked up among
\* timezone-naive labels and timezone-aware ones among timezone-aware ones
is_comparable(index, label) == \A b \in index : b.tz = label.tz

\* Series.reindex(idx, fill_value=fill): the value under each label of idx, and
\* fill for a label the series does not hold
reindex(series, idx, fill) ==
    [i \in 1..Len(idx) |->
        <<idx[i],
          IF is_comparable(DOMAIN series, idx[i]) /\ idx[i] \in DOMAIN series
          THEN series[idx[i]] ELSE fill>>]

\* weekly_counts without the early return for an empty frame
weekly_counts_dense(dfl, days, t) ==
    LET start == minus_days(Timestamp_utcnow(t), days)
        rng   == date_range(normalize(start), days + 1)
    IN  [i \in 1..Len(rng) |-> <<normalize(rng[i]), 0>>]

\* weekly_counts(df_logs, days) evaluated when the clock reads t; the result is
\* the series as a sequence of <<index label, value>>
weekly_counts(dfl, days, t) ==
    IF dfl = <<>> THEN <<>>
    ELSE LET tss   == [i \in 1..Len(dfl) |-> to_datetime(dfl[i].ts)]
             start == minus_days(Timestamp_utcnow(t), days)
             rng   == date_range(normalize(start), days + 1)
             s     == reindex(groupby_D_size(tss), rng, 0)
         IN  [i \in 1..Len(s) |-> <<normalize(s[i][1]), s[i][2]>>]

\* the for loop of calc_streaks over the sorted days: <<streak, best, prev>>
RECURSIVE streak_walk(_, _, _, _)
streak_walk(days, streak, best, prev) ==
    IF days = <<>> THEN best
    ELSE LET d  == Head(days)
             st == IF prev = None \/ d = prev[1] + 1 THEN streak + 1 ELSE 1
         IN  streak_walk(Tail(days), st, Max2(best, st), Some(d))

\* the while loop of calc_streaks: count back from d while d is a logged day
RECURSIVE cur_streak_walk(_, _, _)
cur_streak_walk(d, dset, cur_streak) ==
    IF d \in dset THEN cur_streak_walk(d - 1, dset, cur_streak + 1) ELSE cur_streak

\* the filter left out
filter_habit_all(df, habit_id) == df

\* df[df['habit_id'] == habit_id]
filter_habit(df, habit_id) == SelectSeq(df, LAMBDA r : r.habit_id = habit_id)

\* calc_streaks with the current streak counted back from today
calc_streaks_today(dfl, habit_id, t) ==
    IF dfl = <<>> THEN <<0, 0>>
    ELSE LET df   == IF Truthy(habit_id) THEN filter_habit(dfl, habit_id[1])
                     ELSE dfl
             today == t.day
             dset == {date(tz_localize_None(to_datetime(df[i].ts))) : i \in 1..Len(df)}
             days == sorted(dset)
         IN  IF days = <<>> THEN <<0, 0>>
             ELSE <<cur_streak_walk(today, dset, 0),
                    streak_walk(days, 0, 0, None)>>

\* calc_streaks(df_logs, habit_id) evaluated when the clock reads t:
\* <<cur_streak, best>>; today is computed and not used
calc_streaks(dfl, habit_id, t) ==
    IF dfl = <<>> THEN <<0, 0>>
    ELSE LET df   == IF Truthy(habit_id) THEN filter_habit(dfl, habit_id[1])
                     ELSE dfl
             today == t.day
             dset == {date(tz_localize_None(to_datetime(df[i].ts))) : i \in 1..Len(df)}
             days == sorted(dset)
         IN  IF days = <<>> THEN <<0, 0>>
             ELSE <<cur_streak_walk(SetMax(dset), dset, 0),
                    streak_walk(days, 0, 0, None)>>

(* --------------------------------- UI --------------------------------- *)
\* dict.setdefault: the first row with a name keeps the entry
dict_setdefault(d, k, v) == [x \in DOMAIN d \cup {k} |-> IF x \in DOMAIN d THEN d[x] ELSE v]

dict_set(d, k, v) == [x \in DOMAIN d \cup {k} |-> IF x = k THEN v ELSE d[x]]

\* {row['name']: row['id'] for _, row in df_h.iterrows()}: a later row
\* overwrites the entry of an earlier row with the same name
h_opt(df_h) ==
    LET f[n \in 0..Len(df_h)] ==
            IF n = 0 THEN <<>> ELSE dict_set(f[n - 1], df_h[n].name, df_h[n].id)
    IN  f[Len(df_h)]

\* what one run of the script shows, from the tables and the clock (the two
\* charts are drawn from weekly_counts and are not kept)
Render(htbl, ltbl, t) ==
    LET df_h == get_habits(htbl)
        dfl  == get_logs(htbl, ltbl)
        st   == calc_streaks(dfl, None, t)
    IN  [options       |-> DOMAIN h_opt(df_h),
         quick         |-> {df_h[i].id : i \in 1..Len(df_h)},
         total_actions |-> Len(dfl),
         unique_habits |-> Len(df_h),
         cur_streak    |-> st[1],
         best_streak   |-> st[2],
         info          |-> IF weekly_counts(dfl, 30, t) = <<>>
                           THEN "Sem dados suficientes" ELSE ""]

Event(op, arg, msg, rowid) == [op |-> op, arg |-> arg, msg |-> msg, lastrowid |-> rowid]

NoResult == [op |-> "none", arg |-> <<>>, value |-> <<>>]

Init ==
    /\ habits = init_db.habits
    /\ logs = init_db.logs
    /\ sqlite_sequence = init_db.seq
    /\ now = FirstInstant
    /\ event = Event("load", <<>>, "", 0)
    /\ view = Render(init_db.habits, init_db.logs, FirstInstant)
    /\ df_logs = <<>>
    /\ result = NoResult

\* the system clock advances between two interactions
Tick ==
    /\ \E t \in Instants : Before(now, t) /\ now' = t
    /\ UNCHANGED <<habits, logs, sqlite_sequence, event, view, df_logs, result>>

\* "Criar habito" submitted with the form's four inputs
form_habit(name, category, target, color) ==
    /\ IF ~(strip(name) # <<>>)
       THEN /\ event' = Event("form_habit", name, "Nome obrigatorio", 0)
            /\ UNCHANGED <<habits, sqlite_sequence>>
       ELSE /\ Len(habits) < MaxHabits
            /\ habits' = add_habit(habits, sqlite_sequence.habits, strip(name),
                                   strip(category), target, color, now)
            /\ sqlite_sequence' = [sqlite_sequence EXCEPT !.habits = @ + 1]
            /\ event' = Event("form_habit", name, "Habito criado",
                              sqlite_sequence.habits + 1)
    /\ view' = Render(habits', logs, now)
    /\ UNCHANGED <<logs, now, df_logs, result>>

\* "Registrar agora" submitted with the chosen habit name and the note
log_form(habit_sel, note) ==
    /\ get_habits(habits) # <<>>
    /\ habit_sel \in DOMAIN h_opt(get_habits(habits))
    /\ Len(logs) < MaxLogs
    /\ logs' = add_log(logs, sqlite_sequence.logs, h_opt(get_habits(habits))[habit_sel],
                       Some(isoformat(now)), Some(note), now)
    /\ sqlite_sequence' = [sqlite_sequence EXCEPT !.logs = @ + 1]
    /\ event' = Event("log_form", habit_sel, "Registrado", sqlite_sequence.logs + 1)
    /\ view' = Render(habits, logs', now)
    /\ UNCHANGED <<habits, now, df_logs, result>>

\* "+1" logging the row's position in the frame instead of its id
quick_index(r) ==
    /\ Len(logs) < MaxLogs
    /\ logs' = add_log(logs, sqlite_sequence.logs,
                       (CHOOSE i \in 1..Len(habits) : get_habits(habits)[i] = r) - 1,
                       None, None, now)
    /\ sqlite_sequence' = [sqlite_sequence EXCEPT !.logs = @ + 1]
    /\ event' = Event("quick", <<r.id>>, "", sqlite_sequence.logs + 1)
    /\ view' = Render(habits, logs', now)
    /\ UNCHANGED <<habits, now, df_logs, result>>

\* the "+1" button of row r of the habit list, then st.experimental_rerun()
quick(r) ==
    /\ Len(logs) < MaxLogs
    /\ logs' = add_log(logs, sqlite_sequence.logs, r.id, None, None, now)
    /\ sqlite_sequence' = [sqlite_sequence EXCEPT !.logs = @ + 1]
    /\ event' = Event("quick", <<r.id>>, "", sqlite_sequence.logs + 1)
    /\ view' = Render(habits, logs', now)
    /\ UNCHANGED <<habits, now, df_logs, result>>

\* a run of the script that no form or button triggered
Rerun ==
    /\ event' = Event("rerun", <<>>, "", 0)
    /\ view' = Render(habits, logs, now)
    /\ UNCHANGED <<habits, logs, sqlite_sequence, now, df_logs, result>>

Next ==
    \/ Tick
    \/ \E name \in RawNames, category \in Categories, target \in Targets,
          color \in Colors : form_habit(name, category, target, color)
    \/ \E habit_sel \in {strip(n) : n \in RawNames}, note \in Notes :
          log_form(habit_sel, note)
    \/ \E i \in 1..Len(habits) : quick(get_habits(habits)[i])
    \/ Rerun

Spec == Init /\ [][Next]_vars

(* ------------- the two aggregations applied to a log table ------------ *)
AggInstants == [day : 0..MaxDate, tod : Tods]

\* two habits, created at the first instant
AggHabits ==
    [i \in 1..2 |->
        [id |-> i, name |-> <<"a">>, category |-> <<>>, target |-> 1,
         color |-> "#7c3aed", created_at |-> isoformat([day |-> 0, tod |-> 0])]]

\* the tables add_log can make of tbl by one more row: the next id, any habit,
\* the text of an instant not before the last row's
AggAppend(tbl) ==
    {Append(tbl, [id |-> Len(tbl) + 1, habit_id |-> h, ts |-> isoformat(t), note |-> None]) :
        h \in 1..Len(AggHabits),
        t \in {u \in AggInstants : tbl = <<>> \/ ~TextLess(isoformat(u), tbl[Len(tbl)].ts)}}

\* log tables of up to MaxEntries rows as add_log leaves them: ids in insertion
\* order, timestamps read from a clock that does not run backwards
AggLogTables ==
    LET T[n \in 0..MaxEntries] ==
            IF n = 0 THEN {<<>>} ELSE UNION {AggAppend(tbl) : tbl \in T[n - 1]}
    IN  UNION {T[n] : n \in 0..MaxEntries}

InitAgg ==
    /\ habits = AggHabits
    /\ logs \in AggLogTables
    /\ sqlite_sequence = [habits |-> Len(habits), logs |-> Len(logs)]
    /\ now \in AggInstants
    /\ \A i \in 1..Len(logs) : ~TextLess(isoformat(now), logs[i].ts)
    /\ event = Event("load", <<>>, "", 0)
    /\ view = Render(habits, logs, now)
    /\ df_logs = get_logs(habits, logs)
    /\ result = NoResult

\* s = weekly_counts(df_logs, days=days)
run_weekly_counts(days) ==
    /\ result' = [op |-> "weekly_counts", arg |-> <<days>>,
                  value |-> weekly_counts(df_logs, days, now)]
    /\ UNCHANGED <<habits, logs, sqlite_sequence, now, event, view, df_logs>>

\* cur_streak, best_streak = calc_streaks(df_logs, habit_id)
run_calc_streaks(habit_id) ==
    /\ result' = [op |-> "calc_streaks", arg |-> habit_id,
                  value |-> calc_streaks(df_logs, habit_id, now)]
    /\ UNCHANGED <<habits, logs, sqlite_sequence, now, event, view, df_logs>>

NextAgg ==
    \/ \E days \in 0..MaxWindow : run_weekly_counts(days)
    \/ \E habit_id \in {None} \cup {Some(h) : h \in 1..Len(habits)} :
          run_calc_streaks(habit_id)

SpecAgg == InitAgg /\ [][NextAgg]_vars

(* ------------------------------ properties ---------------------------- *)
Blank(name) == \A i \in 1..Len(name) : name[i] = " "

Created == "Habito criado"
Required == "Nome obrigatorio"

\* C1: a habit form submitted with an empty or all-whitespace name shows the
\* validation error and leaves the habits table exactly as it was
C1_BlankNameRejected ==
    [][\A name \in RawNames, category \in Categories, target \in Targets,
         color \in Colors :
           (Blank(name) /\ form_habit(name, category, target, color))
              => (habits' = habits /\ event'.msg = Required)]_vars

C1_Witness ==
    /\ event.op = "form_habit" /\ event.arg = <<" ">> /\ event.msg = Required
    /\ Len(habits) = 1

IdCount(id) ==
    Cardinality({i \in 1..Len(get_habits(habits)) : get_habits(habits)[i].id = id})

\* C2 as stated: after a habit form submitted with any non-empty name, the
\* creation succeeded and the new id is listed exactly once by get_habits
C2_NonEmptyNameCreates ==
    (event.op = "form_habit" /\ event.arg # <<>>)
        => (event.msg = Created /\ IdCount(event.lastrowid) = 1)

\* C2 amended: after a habit form submitted with a name that is non-empty once
\* trimmed, the creation succeeded and the new id is listed exactly once
C2_NonBlankNameCreates ==
    (event.op = "form_habit" /\ ~Blank(event.arg))
        => (event.msg = Created /\ IdCount(event.lastrowid) = 1)

C2_Witness ==
    /\ event.op = "form_habit" /\ event.arg = <<" ", "a", " ">> /\ event.msg = Created
    /\ Len(habits) = 2 /\ event.lastrowid = 2 /\ logs # <<>>

\* C3: every log row written by a step refers to a habit that is in the habits
\* table in the state the step starts from
C3_LogRefersToExistingHabit ==
    [][\A i \in 1..Len(logs') :
          i > Len(logs) => \E j \in 1..Len(habits) : habits[j].id = logs'[i].habit_id]_vars

C3_Witness ==
    /\ Len(logs) = 2 /\ logs[1].note # None /\ logs[2].note = None
    /\ event.op = "quick"

AggDates(df) == {df[i].ts[1] : i \in 1..Len(df)}

IsRun(S, a, b) == \A d \in a..b : d \in S

\* length of the longest run of consecutive dates in S
LongestRun(S) == SetMax({b - a + 1 : <<a, b>> \in {p \in S \X S : p[1] <= p[2] /\ IsRun(S, p[1], p[2])}})

\* length of the run of consecutive dates in S that ends at the latest date
RunAtMax(S) == SetMax({k \in 1..Cardinality(S) : IsRun(S, SetMax(S) - k + 1, SetMax(S))})

StreaksOf(S) == IF S = {} THEN <<0, 0>> ELSE <<RunAtMax(S), LongestRun(S)>>

\* C4: for a non-empty frame and no habit id, calc_streaks returns the run ending
\* at the latest logged date and the longest run, whatever the clock reads
C4_Streaks ==
    (result.op = "calc_streaks" /\ result.arg = None /\ df_logs # <<>>)
        => result.value = <<RunAtMax(AggDates(df_logs)), LongestRun(AggDates(df_logs))>>

C4_Witness ==
    /\ result.op = "calc_streaks" /\ result.arg = None
    /\ AggDates(df_logs) = {0, 1, 3} /\ result.value = <<1, 2>>

CountOn(df, d) == Cardinality({j \in 1..Len(df) : df[j].ts[1] = d})

\* C5: for a non-empty frame weekly_counts returns days + 1 elements, one per
\* day from days before today through today in ascending order, each with the
\* number of rows logged on that day
C5_DailyCounts ==
    (result.op = "weekly_counts" /\ df_logs # <<>>)
        => LET days == result.arg[1]
               s    == result.value
           IN  /\ Len(s) = days + 1
               /\ \A i \in 1..Len(s) :
                     /\ s[i][1].day = now.day - days + (i - 1)
                     /\ s[i][2] = CountOn(df_logs, s[i][1].day)

\* C6: weekly_counts returns the empty series exactly for the empty frame, and
\* days + 1 elements for every other frame
C6_EmptyIffEmpty ==
    result.op = "weekly_counts"
        => /\ (result.value = <<>>) <=> (df_logs = <<>>)
           /\ df_logs # <<>> => Len(result.value) = result.arg[1] + 1

C6_Witness ==
    /\ result.op = "weekly_counts" /\ result.arg = <<0>>
    /\ df_logs # <<>> /\ \A i \in 1..Len(df_logs) : df_logs[i].ts[1] < now.day
    /\ Len(result.value) = 1

\* C7: get_logs returns every log row, latest timestamp first, and get_habits
\* returns every habit, largest id first
C7_Ordering ==
    LET L == get_logs(habits, logs)
        H == get_habits(habits)
    IN  /\ Len(L) = Len(logs) /\ {L[i].id : i \in 1..Len(L)} = {logs[i].id : i \in 1..Len(logs)}
        /\ Len(H) = Len(habits) /\ {H[i] : i \in 1..Len(H)} = {habits[i] : i \in 1..Len(habits)}
        /\ \A i \in 1..Len(L), j \in 1..Len(L) :
              i < j => ~Before(to_datetime(L[i].ts), to_datetime(L[j].ts))
        /\ \A i \in 1..Len(H), j \in 1..Len(H) : i < j => H[i].id >= H[j].id

C7_Witness ==
    /\ Len(logs) = 2 /\ logs[1].ts # logs[2].ts
    /\ Len(habits) = 2

\* C8: every row of either table is still in that table, unchanged, after
\* every step
C8_AppendOnly ==
    [][/\ \A i \in 1..Len(habits) : \E j \in 1..Len(habits') : habits'[j] = habits[i]
       /\ \A i \in 1..Len(logs) : \E j \in 1..Len(logs') : logs'[j] = logs[i]]_vars

C8_Witness ==
    /\ Len(habits) = 2 /\ Len(logs) = 2
    /\ habits[1].created_at # habits[2].created_at
    /\ event.op = "rerun"

\* C9: calc_streaks with a habit id returns the streaks of the dates of that
\* habit's rows alone, <<0, 0>> when it has none, and with no habit id the
\* streaks of the dates of all rows
C9_StreaksPerHabit ==
    result.op = "calc_streaks"
        => result.value =
             StreaksOf(AggDates(IF result.arg = None THEN df_logs
                                ELSE SelectSeq(df_logs, LAMBDA r : r.habit_id = result.arg[1])))

C9_Witness ==
    /\ result.op = "calc_streaks" /\ result.arg = Some(1)
    /\ {df_logs[i].habit_id : i \in 1..Len(df_logs)} = {1, 2}
    /\ result.value = <<1, 1>>
    /\ StreaksOf(AggDates(df_logs)) = <<3, 3>>

IdsNamed(name) == {habits[i].id : i \in {k \in 1..Len(habits) : habits[k].name = name}}

\* a habit that has a namesake with a smaller id
Shadowed(id) ==
    \E i \in 1..Len(habits), j \in 1..Len(habits) :
        habits[i].id = id /\ habits[j].name = habits[i].name /\ habits[j].id < id

\* C10: a log form submitted for a name appends exactly one log row, for the
\* smallest id among the habits of that name; a row for a habit that has an
\* older namesake is written by the "+1" button only
C10_LogFormSmallestId ==
    [][/\ \A habit_sel \in {strip(n) : n \in RawNames}, note \in Notes :
            log_form(habit_sel, note)
              => /\ Len(logs') = Len(logs) + 1
                 /\ SubSeq(logs', 1, Len(logs)) = logs
                 /\ logs'[Len(logs')].habit_id = SetMin(IdsNamed(habit_sel))
       /\ (Len(logs') > Len(logs) /\ Shadowed(logs'[Len(logs')].habit_id))
            => \E i \in 1..Len(habits) : quick(get_habits(habits)[i])]_vars

C10_Witness ==
    /\ event.op = "log_form" /\ IdsNamed(event.arg) = {1, 2}
    /\ Len(logs) = 2 /\ logs[1].habit_id = 2 /\ logs[2].habit_id = 1

====
